---- MODULE Spec2Model ----
(***************************************************************************)
(* Model of src/espcode.ino: the ESP32 RFID access-control endpoint.       *)
(* The sketch is one single-threaded program: setup() runs once, then      *)
(* loop() runs forever.  pc is the position of that one thread, stack the  *)
(* return addresses of the calls in progress, now the value of millis().   *)
(* Strings are sequences of ASCII codes.  millis() stays far below 2^32 in *)
(* the time horizon explored here, so unsigned subtraction is plain        *)
(* subtraction of a smaller from a larger number.                          *)
(***************************************************************************)
EXTENDS Integers, Sequences, FiniteSets, TLC

(* ---- program constants ------------------------------------------------ *)
CARD_DEBOUNCE == 2000
WIFI_CHECK_INTERVAL == 30000
WIFI_CONNECT_TIMEOUT == 20000
WIFI_POLL_DELAY == 500
HTTP_TIMEOUT == 10000
LOOP_DELAY == 100
SETUP_DELAY == 1000 + 100
ACK_PULSE == 50
SUCCESS_BEEP == 200
SUCCESS_HOLD == 1800
FAILURE_BEEP == 100
FAILURE_BEEPS == 3
FAILURE_HOLD == 1500
HTTP_OK == 200
RedirectCodes == {301, 302}
\* statuses and HTTPClient error codes the environment may produce
OtherStatus == {404}
ClientErrors == {0 - 1}
TimeoutErrors == {0 - 11}

(* ---- bounds of the exploration ---------------------------------------- *)
MaxTime == 30200      \* no loop turn starts after this value of millis()
MaxCards == 2         \* card presentations in one run
ChainCards == 3       \* card presentations in one run of ChainSpec
MaxIdle == 1          \* short/long idle stretches in one run
IdleShort == 18       \* loop turns without a card: next read 1900 after a commit
IdleLong == 19        \* loop turns without a card: next read 2000 after a commit
GetQuick == 250       \* duration of a GET that is answered
ConnectPolls == 1     \* polls of wifiConnect after which the link may come up
EncMaxLen == 2        \* length of the strings urlEncode is run on

IdleTurns == {IdleShort, IdleLong}

(* ---- strings ---------------------------------------------------------- *)
\* "RSP505"
TOKEN == <<82, 83, 80, 53, 48, 53>>
\* ""
EmptyString == <<>>

\* bytes of the cards presented: DE AD BE EF and 0A 00 FF 01
UidBytes == { <<222, 173, 190, 239>>, <<10, 0, 255, 1>> }

\* String(v, HEX): lowercase hex digits of v, no leading zero
HexDigitLower(d) == IF d < 10 THEN 48 + d ELSE 97 + (d - 10)
StringHEX(v) == IF v < 16 THEN <<HexDigitLower(v)>>
                ELSE <<HexDigitLower(v \div 16), HexDigitLower(v % 16)>>
\* toUpperCase on one character
ToUpper(c) == IF c >= 97 /\ c <= 122 THEN c - 32 ELSE c
toUpperCase(s) == [i \in 1..Len(s) |-> ToUpper(s[i])]

RECURSIVE UidHex(_)
\* the loop of readRFIDCard building cardUID, before toUpperCase
UidHex(bytes) ==
  IF bytes = <<>> THEN <<>>
  ELSE (IF Head(bytes) < 16 THEN <<48>> ELSE <<>>) \o StringHEX(Head(bytes))
       \o UidHex(Tail(bytes))
CardUIDOf(bytes) == toUpperCase(UidHex(bytes))

isalnum(c) == \/ (c >= 48 /\ c <= 57)
              \/ (c >= 65 /\ c <= 90)
              \/ (c >= 97 /\ c <= 122)
HexDigitUpper(d) == IF d < 10 THEN 48 + d ELSE 65 + (d - 10)
\* one character of urlEncode with %02x for %02X
EncodeChar_lowerHex(c) ==
  IF isalnum(c) \/ c = 45 \/ c = 95 \/ c = 46 \/ c = 126
  THEN <<c>>
  ELSE <<37, HexDigitLower(c \div 16), HexDigitLower(c % 16)>>
\* one character of urlEncode
EncodeChar(c) ==
  IF isalnum(c) \/ c = 45 \/ c = 95 \/ c = 46 \/ c = 126
  THEN <<c>>
  ELSE <<37, HexDigitUpper(c \div 16), HexDigitUpper(c % 16)>>
RECURSIVE urlEncode(_)
urlEncode(s) == IF s = <<>> THEN <<>> ELSE EncodeChar(Head(s)) \o urlEncode(Tail(s))

\* the request URL, kept as its parts: base ? mode & uid & token
RequestUrl(uid) == [base |-> "SCRIPT_BASE", mode |-> "check_and_toggle",
                    uid |-> urlEncode(uid), token |-> urlEncode(TOKEN)]
\* the redirect chain of the servers: SCRIPT_BASE -> LOC_B -> LOC_C
LocationUrl(name) == [base |-> name, mode |-> "", uid |-> <<>>, token |-> <<>>]
NoUrl == LocationUrl("")
LocationAt(target) == IF target.base = "SCRIPT_BASE" THEN LocationUrl("LOC_B")
                      ELSE LocationUrl("LOC_C")

(* ---- response bodies: sequences of words; indexOf(marker) >= 0 is       *)
(*      membership of the marker among the words --------------------------*)
Bodies == { <<>>, <<"denied">>, <<"session_started">>, <<"session_ended">>,
            <<"session_ended", "session_started">>,
            <<"session_started", "session_ended">> }
Contains(body, marker) == \E i \in 1..Len(body) : body[i] = marker
NoWifiBody == <<"no_wifi">>

\* what one http.GET() to target can produce: status code, time taken,
\* Location header, body
Responses(target) ==
  [code : {HTTP_OK}, dur : {GetQuick}, loc : {NoUrl}, body : Bodies]
  \cup [code : OtherStatus, dur : {GetQuick}, loc : {NoUrl},
        body : {<<>>, <<"session_started">>}]
  \cup [code : RedirectCodes, dur : {GetQuick}, loc : {LocationAt(target)},
        body : {<<"session_ended">>}]
  \cup [code : ClientErrors, dur : {GetQuick}, loc : {NoUrl}, body : {<<>>}]
  \cup [code : TimeoutErrors, dur : {HTTP_TIMEOUT}, loc : {NoUrl}, body : {<<>>}]

VARIABLES
  now,            \* millis()
  pc,             \* position of the single thread
  stack,          \* return addresses of signalFailure/signalSuccess/wifiConnect
  reader,         \* the RFID module answered the version read in setup()
  wifi,           \* WiFi.status() == WL_CONNECTED
  green, red, buzzer,   \* the three indicator pins
  lastUID, lastCardRead, lastWifiCheck,   \* the globals of the sketch
  cardUID,        \* local of readRFIDCard
  connectStart,   \* local of wifiConnect
  beeps,          \* loop counter i of signalFailure
  url, code, resp, ok,  \* locals of handleRequest / httpGET
  newUrl,         \* local of httpGET: the Location of a redirect answer
  conn,           \* connections currently open in the HTTPClient
  pending,        \* the response of the last http.GET(), not yet read
  fetched,        \* URLs a GET was sent to during the current httpGET
  peerOut,        \* lines written to espSerial in setup or in the current turn
  ev,             \* what the card event of the current turn did so far
  acc,            \* the last fully processed card event
  encS, encOut, encI,   \* parameter s, local out and loop index i of urlEncode
  cardsLeft, idleLeft   \* exploration budgets

vars == <<now, pc, stack, reader, wifi, green, red, buzzer, lastUID, lastCardRead,
          lastWifiCheck, cardUID, connectStart, beeps, url, code, resp, ok, newUrl,
          conn, pending, fetched, peerOut, ev, acc, encS, encOut, encI,
          cardsLeft, idleLeft>>


\* groups of variables
pins == <<green, red, buzzer>>
debounce == <<lastUID, lastCardRead>>
locals == <<url, code, resp, ok, newUrl, pending, fetched>>
budget == <<cardsLeft, idleLeft>>
enc == <<encS, encOut, encI>>

NoResponse == [code |-> 0, dur |-> 0, loc |-> NoUrl, body |-> <<>>]

\* the identifiers of the cards presented
CardUIDs == { CardUIDOf(bytes) : bytes \in UidBytes }

\* record of one card event: what was true when the card was detected
\* (same: it is the card accepted last; since: time since that acceptance;
\* quiet: no card was read since that acceptance; own: time since this
\* identifier was accepted last, -1 if it never was) and what was done for it
NoEvent == [kind |-> "none", same |-> FALSE, since |-> 0, quiet |-> FALSE,
            own |-> 0 - 1,
            acks |-> 0, reqs |-> 0,
            succ |-> 0, fail |-> 0, halts |-> 0, commits |-> 0, stamps |-> 0,
            opens |-> 0, closes |-> 0, link |-> "unread", supp |-> FALSE]
\* at: for every identifier the time it was accepted last, -1 if never
NoAccepted == [some |-> FALSE, uid |-> <<>>, time |-> 0, failed |-> FALSE,
               reqs |-> 0, lines |-> 0, pats |-> 0,
               at |-> [u \in CardUIDs |-> 0 - 1]]

\* the globals as initialised at lines 39-42, before setup() runs
InitWith(cards) ==
  /\ now = 0 /\ pc = "setup" /\ stack = <<>>
  /\ reader = FALSE /\ wifi = FALSE
  /\ green = FALSE /\ red = FALSE /\ buzzer = FALSE
  /\ lastUID = EmptyString /\ lastCardRead = 0 /\ lastWifiCheck = 0
  /\ cardUID = EmptyString /\ connectStart = 0 /\ beeps = 0
  /\ url = NoUrl /\ code = 0 /\ resp = <<>> /\ ok = FALSE /\ newUrl = NoUrl
  /\ conn = 0 /\ pending = NoResponse /\ fetched = <<>>
  /\ peerOut = <<>> /\ ev = NoEvent /\ acc = NoAccepted
  /\ encS = EmptyString /\ encOut = EmptyString /\ encI = 0
  /\ cardsLeft = cards /\ idleLeft = MaxIdle

Init == InitWith(MaxCards)

(* ---- helpers for the call stack and the event record ------------------- *)
Call(target, ret) == pc' = target /\ stack' = <<ret>> \o stack
Return == pc' = Head(stack) /\ stack' = Tail(stack)
Bump(field) == ev' = [ev EXCEPT ![field] = @ + 1]

\* millis() - t, for t a value millis() had earlier
Elapsed(t) == now - t

(* ---- setup() ----------------------------------------------------------- *)
\* lines 55-86: delays, pins LOW, version read of the reader, call wifiConnect
setup ==
  /\ pc = "setup"
  /\ now' = now + SETUP_DELAY
  /\ \E present \in BOOLEAN :
        /\ reader' = present
        /\ red' = ~present
  /\ green' = FALSE /\ buzzer' = FALSE
  /\ Call("wifi_begin", "setup_ready")
  /\ UNCHANGED <<wifi, debounce, lastWifiCheck, cardUID, connectStart, beeps, locals,
                 conn, peerOut, ev, acc, budget, enc>>

\* lines 87-88
setup_ready ==
  /\ pc = "setup_ready"
  /\ peerOut' = Append(peerOut, "System Ready")
  /\ pc' = "loop"
  /\ UNCHANGED <<now, stack, reader, wifi, pins, debounce, lastWifiCheck, cardUID,
                 connectStart, beeps, locals, conn, ev, acc, budget, enc>>

(* ---- wifiConnect() ----------------------------------------------------- *)
\* lines 234-238
wifiConnect_begin ==
  /\ pc = "wifi_begin"
  /\ connectStart' = now
  /\ pc' = "wifi_wait"
  /\ UNCHANGED <<now, stack, reader, wifi, pins, debounce, lastWifiCheck, cardUID,
                 beeps, locals, conn, peerOut, ev, acc, budget, enc>>

\* the condition of the while loop at line 239
StillConnecting == ~wifi /\ Elapsed(connectStart) < WIFI_CONNECT_TIMEOUT

\* lines 239-242, one turn of the while loop
wifiConnect_poll ==
  /\ pc = "wifi_wait"
  /\ StillConnecting
  /\ now' = now + WIFI_POLL_DELAY
  /\ UNCHANGED <<pc, stack, reader, wifi, pins, debounce, lastWifiCheck, cardUID,
                 connectStart, beeps, locals, conn, peerOut, ev, acc, budget, enc>>

\* lines 243-250 without the digitalWrite of line 249
wifiConnect_result_noFault ==
  /\ pc = "wifi_wait"
  /\ ~StillConnecting
  /\ Return
  /\ UNCHANGED <<now, reader, wifi, pins, debounce, lastWifiCheck, cardUID,
                 connectStart, beeps, locals, conn, peerOut, ev, acc, budget, enc>>

\* lines 243-250, after the while loop
wifiConnect_result ==
  /\ pc = "wifi_wait"
  /\ ~StillConnecting
  /\ red' = IF wifi THEN red ELSE TRUE
  /\ Return
  /\ UNCHANGED <<now, reader, wifi, green, buzzer, debounce, lastWifiCheck, cardUID,
                 connectStart, beeps, locals, conn, peerOut, ev, acc, budget, enc>>

(* ---- the link, as the WiFi stack sees it ------------------------------- *)
\* The link comes up only after WiFi.begin(), while wifiConnect waits or
\* between loop turns; it can drop whenever the loop is between turns or a
\* request is about to be made.
LinkChange ==
  /\ \/ pc = "loop"
     \/ pc = "http_enter"
     \/ pc = "wifi_wait" /\ ~wifi /\ Elapsed(connectStart) = ConnectPolls * WIFI_POLL_DELAY
  /\ wifi' = ~wifi
  /\ UNCHANGED <<now, pc, stack, reader, pins, debounce, lastWifiCheck, cardUID,
                 connectStart, beeps, locals, conn, peerOut, ev, acc, budget, enc>>

(* ---- loop() ------------------------------------------------------------ *)
\* the condition of line 102, at a time t
CheckDue(t) == t - lastWifiCheck > WIFI_CHECK_INTERVAL

\* k consecutive turns of loop() in which no card is present and the health
\* check of line 102 is not due: only delay(100) acts, k times
IdleFor(k) ==
  /\ pc = "loop"
  /\ ~CheckDue(now + (k - 1) * LOOP_DELAY)
  /\ now + k * LOOP_DELAY <= MaxTime
  /\ now' = now + k * LOOP_DELAY
  /\ UNCHANGED <<pc, stack, reader, wifi, pins, debounce, lastWifiCheck, cardUID,
                 connectStart, beeps, locals, conn, peerOut, ev, acc,
                 cardsLeft, enc>>

loop_idle ==
  /\ idleLeft > 0
  /\ idleLeft' = idleLeft - 1
  /\ \E k \in IdleTurns : IdleFor(k)

\* the turns without a card up to the first one in which the check is due
TurnsUntilCheck == ((lastWifiCheck + WIFI_CHECK_INTERVAL - now) \div LOOP_DELAY) + 1

loop_idle_until_check ==
  /\ ~CheckDue(now)
  /\ IdleFor(TurnsUntilCheck)
  /\ UNCHANGED idleLeft

\* line 92 false in a turn in which the check is due
loop_no_card ==
  /\ pc = "loop"
  /\ peerOut' = <<>>
  /\ now <= MaxTime
  /\ CheckDue(now)
  /\ pc' = "check"
  /\ UNCHANGED <<now, stack, reader, wifi, pins, debounce, lastWifiCheck, cardUID,
                 connectStart, beeps, locals, conn, ev, acc, budget, enc>>

\* lines 92-94 and 141-148: a card is present, its serial is read, cardUID built
loop_card ==
  /\ pc = "loop"
  /\ peerOut' = <<>>
  /\ now <= MaxTime
  /\ reader /\ cardsLeft > 0
  /\ cardsLeft' = cardsLeft - 1
  /\ \E bytes \in UidBytes : cardUID' = CardUIDOf(bytes)
  /\ ev' = [NoEvent EXCEPT !.kind = "card",
                           !.same = acc.some /\ cardUID' = acc.uid,
                           !.since = now - acc.time,
                           !.quiet = (lastCardRead = acc.time),
                           !.own = IF acc.at[cardUID'] < 0 THEN 0 - 1
                                   ELSE now - acc.at[cardUID']]
  /\ pc' = "debounce"
  /\ UNCHANGED <<now, stack, reader, wifi, pins, debounce, lastWifiCheck, connectStart,
                 beeps, locals, conn, acc, idleLeft, enc>>

\* lines 92-93 and 96-98 with line 95 placed after the if/else
loop_serial_failed_stamps ==
  /\ pc = "loop"
  /\ peerOut' = <<>>
  /\ now <= MaxTime
  /\ reader /\ cardsLeft > 0
  /\ cardsLeft' = cardsLeft - 1
  /\ ev' = [NoEvent EXCEPT !.kind = "unreadable"]
  /\ Call("sf_begin", "stamp")
  /\ UNCHANGED <<now, reader, wifi, pins, debounce, lastWifiCheck, cardUID,
                 connectStart, beeps, locals, conn, acc, idleLeft, enc>>

\* lines 92-93 and 96-98: a card is present but its serial cannot be read
loop_serial_failed ==
  /\ pc = "loop"
  /\ peerOut' = <<>>
  /\ now <= MaxTime
  /\ reader /\ cardsLeft > 0
  /\ cardsLeft' = cardsLeft - 1
  /\ ev' = [NoEvent EXCEPT !.kind = "unreadable"]
  /\ Call("sf_begin", "check")
  /\ UNCHANGED <<now, reader, wifi, pins, debounce, lastWifiCheck, cardUID,
                 connectStart, beeps, locals, conn, acc, idleLeft, enc>>

\* line 95, after readRFIDCard() has returned
loop_stamp ==
  /\ pc = "stamp"
  /\ lastCardRead' = now
  /\ Bump("stamps")
  /\ pc' = "check"
  /\ UNCHANGED <<now, stack, reader, wifi, pins, lastUID, lastWifiCheck, cardUID,
                 connectStart, beeps, locals, conn, peerOut, acc, budget, enc>>

\* lines 102-106
loop_check ==
  /\ pc = "check"
  /\ IF CheckDue(now)
       THEN IF ~wifi THEN Call("wifi_begin", "check_done")
                     ELSE pc' = "check_done" /\ UNCHANGED stack
       ELSE pc' = "delay" /\ UNCHANGED stack
  /\ UNCHANGED <<now, reader, wifi, pins, debounce, lastWifiCheck, cardUID,
                 connectStart, beeps, locals, conn, peerOut, ev, acc, budget, enc>>

\* line 107 advancing the reference time by one interval
loop_check_done_nextTick ==
  /\ pc = "check_done"
  /\ lastWifiCheck' = lastWifiCheck + WIFI_CHECK_INTERVAL
  /\ pc' = "delay"
  /\ UNCHANGED <<now, stack, reader, wifi, pins, debounce, cardUID, connectStart,
                 beeps, locals, conn, peerOut, ev, acc, budget, enc>>

\* line 107
loop_check_done ==
  /\ pc = "check_done"
  /\ lastWifiCheck' = now
  /\ pc' = "delay"
  /\ UNCHANGED <<now, stack, reader, wifi, pins, debounce, cardUID, connectStart,
                 beeps, locals, conn, peerOut, ev, acc, budget, enc>>

\* line 109; the records of the turn's card event end with the turn
loop_delay ==
  /\ pc = "delay"
  /\ now' = now + LOOP_DELAY
  /\ ev' = NoEvent
  /\ peerOut' = <<>>
  /\ pc' = "loop"
  /\ UNCHANGED <<stack, reader, wifi, pins, debounce, lastWifiCheck, cardUID,
                 connectStart, beeps, locals, conn, acc, budget, enc>>

(* ---- readRFIDCard() ---------------------------------------------------- *)
\* line 150 with the comparison turned round
Debounced_elapsedOver(uid, t) == uid = lastUID /\ (t - lastCardRead) > CARD_DEBOUNCE
\* line 150 with <= for <
Debounced_inclusive(uid, t) == uid = lastUID /\ (t - lastCardRead) <= CARD_DEBOUNCE

\* line 150 with a tenth of the cooldown
Debounced_shortWindow(uid, t) ==
  uid = lastUID /\ (t - lastCardRead) < CARD_DEBOUNCE \div 10
\* line 150 without the comparison of the identifiers
Debounced_timeOnly(uid, t) == (t - lastCardRead) < CARD_DEBOUNCE

\* the condition of line 150
Debounced(uid, t) == uid = lastUID /\ (t - lastCardRead) < CARD_DEBOUNCE

\* lines 150-155
readRFIDCard_debounce ==
  /\ pc = "debounce"
  /\ IF Debounced(cardUID, now)
       THEN /\ ev' = [ev EXCEPT !.supp = TRUE, !.halts = @ + 1]
            /\ pc' = "stamp"
       ELSE /\ ev' = ev
            /\ pc' = "ack_on"
  /\ UNCHANGED <<now, stack, reader, wifi, pins, debounce, lastWifiCheck, cardUID,
                 connectStart, beeps, locals, conn, peerOut, acc, budget, enc>>

\* lines 157 and 188
signalCardRead_on ==
  /\ pc = "ack_on"
  /\ buzzer' = TRUE
  /\ Bump("acks")
  /\ pc' = "ack_off"
  /\ UNCHANGED <<now, stack, reader, wifi, green, red, debounce, lastWifiCheck,
                 cardUID, connectStart, beeps, locals, conn, peerOut, acc,
                 budget, enc>>

\* lines 189-190
signalCardRead_off ==
  /\ pc = "ack_off"
  /\ now' = now + ACK_PULSE
  /\ buzzer' = FALSE
  /\ pc' = "request"
  /\ UNCHANGED <<stack, reader, wifi, green, red, debounce, lastWifiCheck, cardUID,
                 connectStart, beeps, locals, conn, peerOut, ev, acc, budget, enc>>

\* line 160 recording the identifier only after a success pattern
readRFIDCard_commit_onSuccess ==
  /\ pc = "commit"
  /\ lastUID' = IF ev.succ = 1 THEN cardUID ELSE lastUID
  /\ Bump("commits")
  /\ acc' = [some |-> TRUE, uid |-> cardUID, time |-> now,
             failed |-> (peerOut = <<"Request Failed">>),
             reqs |-> ev.reqs, lines |-> Len(peerOut), pats |-> ev.succ + ev.fail,
             at |-> [acc.at EXCEPT ![cardUID] = now]]
  /\ pc' = "halt"
  /\ UNCHANGED <<now, stack, reader, wifi, pins, lastCardRead, lastWifiCheck, cardUID,
                 connectStart, beeps, locals, conn, peerOut, budget, enc>>

\* line 160
readRFIDCard_commit ==
  /\ pc = "commit"
  /\ lastUID' = cardUID
  /\ Bump("commits")
  /\ acc' = [some |-> TRUE, uid |-> cardUID, time |-> now,
             failed |-> (peerOut = <<"Request Failed">>),
             reqs |-> ev.reqs, lines |-> Len(peerOut), pats |-> ev.succ + ev.fail,
             at |-> [acc.at EXCEPT ![cardUID] = now]]
  /\ pc' = "halt"
  /\ UNCHANGED <<now, stack, reader, wifi, pins, lastCardRead, lastWifiCheck, cardUID,
                 connectStart, beeps, locals, conn, peerOut, budget, enc>>

\* lines 161-163: the card session is halted, readRFIDCard returns
readRFIDCard_halt ==
  /\ pc = "halt"
  /\ Bump("halts")
  /\ pc' = "stamp"
  /\ UNCHANGED <<now, stack, reader, wifi, pins, debounce, lastWifiCheck, cardUID,
                 connectStart, beeps, locals, conn, peerOut, acc, budget, enc>>

(* ---- handleRequest() and httpGET() ------------------------------------- *)
\* lines 158-159 and 113: the URL is built and httpGET is entered
handleRequest_url ==
  /\ pc = "request"
  /\ url' = RequestUrl(cardUID)
  /\ Bump("reqs")
  /\ pc' = "http_enter"
  /\ UNCHANGED <<now, stack, reader, wifi, pins, debounce, lastWifiCheck, cardUID,
                 connectStart, beeps, code, resp, ok, newUrl, conn, pending, fetched,
                 peerOut, acc, budget, enc>>

\* lines 215-216 without the link test of lines 210-214
httpGET_enter_noLinkTest ==
  /\ pc = "http_enter"
  /\ conn' = conn + 1
  /\ ev' = [ev EXCEPT !.link = IF wifi THEN "up" ELSE "down", !.opens = @ + 1]
  /\ pc' = "http_get"
  /\ UNCHANGED <<now, stack, reader, wifi, pins, debounce, lastWifiCheck, cardUID,
                 connectStart, beeps, locals, peerOut, acc, budget, enc>>

\* lines 210-214 calling wifiConnect before giving up
httpGET_enter_reconnects ==
  /\ pc = "http_enter"
  /\ IF ~wifi
       THEN /\ code' = -1
            /\ resp' = NoWifiBody
            /\ ok' = FALSE
            /\ ev' = [ev EXCEPT !.link = "down"]
            /\ Call("wifi_begin", "classify")
            /\ UNCHANGED conn
       ELSE /\ conn' = conn + 1
            /\ ev' = [ev EXCEPT !.link = "up", !.opens = @ + 1]
            /\ pc' = "http_get"
            /\ UNCHANGED <<code, resp, ok, stack>>
  /\ UNCHANGED <<now, reader, wifi, pins, debounce, lastWifiCheck, cardUID,
                 connectStart, beeps, url, newUrl, pending, fetched, peerOut, acc,
                 budget, enc>>

\* lines 210-216: the link test, then http.begin(url)
httpGET_enter ==
  /\ pc = "http_enter"
  /\ IF ~wifi
       THEN /\ code' = -1
            /\ resp' = NoWifiBody
            /\ ok' = FALSE
            /\ ev' = [ev EXCEPT !.link = "down"]
            /\ pc' = "classify"
            /\ UNCHANGED conn
       ELSE /\ conn' = conn + 1
            /\ ev' = [ev EXCEPT !.link = "up", !.opens = @ + 1]
            /\ pc' = "http_get"
            /\ UNCHANGED <<code, resp, ok>>
  /\ UNCHANGED <<now, stack, reader, wifi, pins, debounce, lastWifiCheck, cardUID,
                 connectStart, beeps, url, newUrl, pending, fetched, peerOut, acc,
                 budget, enc>>

\* http.GET() to target: the server's answer arrives or the call fails
SendGET(target) ==
  \E r \in Responses(target) :
    /\ now' = now + r.dur
    /\ code' = r.code
    /\ pending' = r
    /\ fetched' = Append(fetched, target)

\* lines 217-218
httpGET_get ==
  /\ pc = "http_get"
  /\ SendGET(url)
  /\ pc' = "http_got"
  /\ UNCHANGED <<stack, reader, wifi, pins, debounce, lastWifiCheck, cardUID,
                 connectStart, beeps, url, resp, ok, newUrl, conn, peerOut, ev, acc,
                 budget, enc>>

\* the condition of line 219
IsRedirect(c) == c = 302 \/ c = 301

\* lines 219-220 without the http.end() of line 221
httpGET_redirect_end_noEnd ==
  /\ pc = "http_got"
  /\ IsRedirect(code)
  /\ newUrl' = pending.loc
  /\ pc' = "http_rebegin"
  /\ UNCHANGED <<now, stack, reader, wifi, pins, debounce, lastWifiCheck, cardUID,
                 connectStart, beeps, url, code, resp, ok, pending, fetched, conn,
                 peerOut, ev, acc, budget, enc>>

\* lines 219-221: newUrl is taken from a redirect answer, the connection ended
httpGET_redirect_end ==
  /\ pc = "http_got"
  /\ IsRedirect(code)
  /\ newUrl' = pending.loc
  /\ conn' = conn - 1
  /\ Bump("closes")
  /\ pc' = "http_rebegin"
  /\ UNCHANGED <<now, stack, reader, wifi, pins, debounce, lastWifiCheck, cardUID,
                 connectStart, beeps, url, code, resp, ok, pending, fetched, peerOut,
                 acc, budget, enc>>

\* line 222: http.begin(newUrl)
httpGET_redirect_begin ==
  /\ pc = "http_rebegin"
  /\ conn' = conn + 1
  /\ Bump("opens")
  /\ pc' = "http_reget"
  /\ UNCHANGED <<now, stack, reader, wifi, pins, debounce, lastWifiCheck, cardUID,
                 connectStart, beeps, locals, peerOut, acc, budget, enc>>

\* lines 223-224 sending the second GET to url again
httpGET_redirect_get_sameUrl ==
  /\ pc = "http_reget"
  /\ SendGET(url)
  /\ pc' = "http_final"
  /\ UNCHANGED <<stack, reader, wifi, pins, debounce, lastWifiCheck, cardUID,
                 connectStart, beeps, url, resp, ok, newUrl, conn, peerOut, ev, acc,
                 budget, enc>>

\* lines 223-224
httpGET_redirect_get ==
  /\ pc = "http_reget"
  /\ SendGET(newUrl)
  /\ pc' = "http_final"
  /\ UNCHANGED <<stack, reader, wifi, pins, debounce, lastWifiCheck, cardUID,
                 connectStart, beeps, url, resp, ok, newUrl, conn, peerOut, ev, acc,
                 budget, enc>>

\* the value returned at line 230
HttpSuccess(c) == c = HTTP_OK

\* lines 226-230
httpGET_finish ==
  /\ \/ pc = "http_got" /\ ~IsRedirect(code)
     \/ pc = "http_final"
  /\ resp' = IF code > 0 THEN pending.body ELSE resp
  /\ conn' = conn - 1
  /\ Bump("closes")
  /\ ok' = HttpSuccess(code)
  /\ pc' = "classify"
  /\ UNCHANGED <<now, stack, reader, wifi, pins, debounce, lastWifiCheck, cardUID,
                 connectStart, beeps, url, code, newUrl, pending, fetched, peerOut,
                 acc, budget, enc>>

\* lines 118-137 testing for session_ended first
Branch_endedFirst(success, body) ==
  IF success
    THEN IF Contains(body, "session_ended")
           THEN [line |-> "Session Ended", signal |-> "ss_begin"]
           ELSE IF Contains(body, "session_started")
                  THEN [line |-> "Access Granted!", signal |-> "ss_begin"]
                  ELSE [line |-> "Access Denied", signal |-> "sf_begin"]
    ELSE [line |-> "Request Failed", signal |-> "sf_begin"]
\* lines 118-137 calling signalSuccess in the denied branch
Branch_deniedSignalsSuccess(success, body) ==
  IF success
    THEN IF Contains(body, "session_started")
           THEN [line |-> "Access Granted!", signal |-> "ss_begin"]
           ELSE IF Contains(body, "session_ended")
                  THEN [line |-> "Session Ended", signal |-> "ss_begin"]
                  ELSE [line |-> "Access Denied", signal |-> "ss_begin"]
    ELSE [line |-> "Request Failed", signal |-> "sf_begin"]

\* the branch of lines 118-137 taken for a result of httpGET
Branch(success, body) ==
  IF success
    THEN IF Contains(body, "session_started")
           THEN [line |-> "Access Granted!", signal |-> "ss_begin"]
           ELSE IF Contains(body, "session_ended")
                  THEN [line |-> "Session Ended", signal |-> "ss_begin"]
                  ELSE [line |-> "Access Denied", signal |-> "sf_begin"]
    ELSE [line |-> "Request Failed", signal |-> "sf_begin"]

\* lines 118-137 stopping for good when the request failed
handleRequest_classify_fatal ==
  /\ pc = "classify"
  /\ ok
  /\ peerOut' = Append(peerOut, Branch(ok, resp).line)
  /\ Call(Branch(ok, resp).signal, "commit")
  /\ UNCHANGED <<now, reader, wifi, pins, debounce, lastWifiCheck, cardUID,
                 connectStart, beeps, locals, conn, ev, acc, budget, enc>>

\* lines 118-137: the peer line is written and the signal function called
handleRequest_classify ==
  /\ pc = "classify"
  /\ peerOut' = Append(peerOut, Branch(ok, resp).line)
  /\ Call(Branch(ok, resp).signal, "commit")
  /\ UNCHANGED <<now, reader, wifi, pins, debounce, lastWifiCheck, cardUID,
                 connectStart, beeps, locals, conn, ev, acc, budget, enc>>

\* The locals of handleRequest and httpGET are read for the last time at
\* lines 119-134; the model drops their values when the signal function starts.
ForgetLocals ==
  /\ url' = NoUrl /\ code' = 0 /\ resp' = <<>> /\ ok' = FALSE /\ newUrl' = NoUrl
  /\ pending' = NoResponse /\ fetched' = <<>>

(* ---- signalSuccess() --------------------------------------------------- *)
\* lines 167-168
signalSuccess_on ==
  /\ pc = "ss_begin"
  /\ green' = TRUE /\ buzzer' = TRUE
  /\ Bump("succ")
  /\ ForgetLocals
  /\ pc' = "ss_beep"
  /\ UNCHANGED <<now, stack, reader, wifi, red, debounce, lastWifiCheck, cardUID,
                 connectStart, beeps, conn, peerOut, acc, budget, enc>>

\* lines 169-170
signalSuccess_beep ==
  /\ pc = "ss_beep"
  /\ now' = now + SUCCESS_BEEP
  /\ buzzer' = FALSE
  /\ pc' = "ss_hold"
  /\ UNCHANGED <<stack, reader, wifi, green, red, debounce, lastWifiCheck, cardUID,
                 connectStart, beeps, locals, conn, peerOut, ev, acc, budget, enc>>

\* lines 171-173 without the digitalWrite of line 172
signalSuccess_hold_greenStays ==
  /\ pc = "ss_hold"
  /\ now' = now + SUCCESS_HOLD
  /\ Return
  /\ UNCHANGED <<reader, wifi, pins, debounce, lastWifiCheck, cardUID,
                 connectStart, beeps, locals, conn, peerOut, ev, acc, budget, enc>>

\* lines 171-173
signalSuccess_hold ==
  /\ pc = "ss_hold"
  /\ now' = now + SUCCESS_HOLD
  /\ green' = FALSE
  /\ Return
  /\ UNCHANGED <<reader, wifi, red, buzzer, debounce, lastWifiCheck, cardUID,
                 connectStart, beeps, locals, conn, peerOut, ev, acc, budget, enc>>

(* ---- signalFailure() --------------------------------------------------- *)
\* lines 176-177
signalFailure_on ==
  /\ pc = "sf_begin"
  /\ red' = TRUE
  /\ beeps' = 0
  /\ Bump("fail")
  /\ ForgetLocals
  /\ pc' = "sf_loop"
  /\ UNCHANGED <<now, stack, reader, wifi, green, buzzer, debounce, lastWifiCheck,
                 cardUID, connectStart, conn, peerOut, acc, budget, enc>>

\* lines 177-178: the loop test holds, buzzer on
signalFailure_beep_on ==
  /\ pc = "sf_loop"
  /\ beeps < FAILURE_BEEPS
  /\ buzzer' = TRUE
  /\ pc' = "sf_beep"
  /\ UNCHANGED <<now, stack, reader, wifi, green, red, debounce, lastWifiCheck,
                 cardUID, connectStart, beeps, locals, conn, peerOut, ev, acc,
                 budget, enc>>

\* lines 179-180
signalFailure_beep_off ==
  /\ pc = "sf_beep"
  /\ now' = now + FAILURE_BEEP
  /\ buzzer' = FALSE
  /\ pc' = "sf_gap"
  /\ UNCHANGED <<stack, reader, wifi, green, red, debounce, lastWifiCheck, cardUID,
                 connectStart, beeps, locals, conn, peerOut, ev, acc, budget, enc>>

\* line 181 and the i++ of line 177
signalFailure_gap ==
  /\ pc = "sf_gap"
  /\ now' = now + FAILURE_BEEP
  /\ beeps' = beeps + 1
  /\ pc' = "sf_loop"
  /\ UNCHANGED <<stack, reader, wifi, pins, debounce, lastWifiCheck, cardUID,
                 connectStart, locals, conn, peerOut, ev, acc, budget, enc>>

\* lines 183-184, after the loop
signalFailure_hold ==
  /\ pc = "sf_loop"
  /\ ~(beeps < FAILURE_BEEPS)
  /\ now' = now + FAILURE_HOLD
  /\ red' = FALSE
  /\ beeps' = 0
  /\ Return
  /\ UNCHANGED <<reader, wifi, green, buzzer, debounce, lastWifiCheck, cardUID,
                 connectStart, locals, conn, peerOut, ev, acc, budget, enc>>

(* ---- the program ------------------------------------------------------- *)
Step ==
  \/ setup \/ setup_ready
  \/ wifiConnect_begin \/ wifiConnect_poll \/ wifiConnect_result
  \/ loop_idle \/ loop_idle_until_check \/ loop_no_card
  \/ loop_card \/ loop_serial_failed \/ loop_stamp
  \/ loop_check \/ loop_check_done \/ loop_delay
  \/ readRFIDCard_debounce \/ signalCardRead_on \/ signalCardRead_off
  \/ readRFIDCard_commit \/ readRFIDCard_halt
  \/ handleRequest_url \/ httpGET_enter \/ httpGET_get
  \/ httpGET_redirect_end \/ httpGET_redirect_begin \/ httpGET_redirect_get
  \/ httpGET_finish \/ handleRequest_classify
  \/ signalSuccess_on \/ signalSuccess_beep \/ signalSuccess_hold
  \/ signalFailure_on \/ signalFailure_beep_on \/ signalFailure_beep_off
  \/ signalFailure_gap \/ signalFailure_hold

Next == Step \/ LinkChange

Spec == Init /\ [][Next]_vars

\* The single thread always executes its next statement: every delay is
\* finite and every call into the reader, the HTTP client and the WiFi stack
\* returns (the GET by its timeout at the latest).
FairSpec == Spec /\ WF_vars(Step)

\* the same program with one more card presentation in a run
ChainInit == InitWith(ChainCards)
ChainSpec == ChainInit /\ [][Next]_vars

(* ---- urlEncode() on its own --------------------------------------------- *)
\* the strings urlEncode is applied to: every string of at most EncMaxLen of
\* these bytes (letters, digits, the four marks, and bytes next to and far
\* from them), the identifiers of the cards and the token
EncBytes == {10, 32, 37, 45, 46, 47, 48, 57, 58, 64, 65, 90, 91, 95, 96, 97, 122,
             123, 126, 127, 128, 255}
EncInputs == UNION { [1..k -> EncBytes] : k \in 0..EncMaxLen }
               \cup CardUIDs \cup {TOKEN}

\* urlEncode(s) has been called: line 194
EncInit ==
  /\ now = 0 /\ pc = "enc_loop" /\ stack = <<>>
  /\ reader = FALSE /\ wifi = FALSE
  /\ green = FALSE /\ red = FALSE /\ buzzer = FALSE
  /\ lastUID = EmptyString /\ lastCardRead = 0 /\ lastWifiCheck = 0
  /\ cardUID = EmptyString /\ connectStart = 0 /\ beeps = 0
  /\ url = NoUrl /\ code = 0 /\ resp = <<>> /\ ok = FALSE /\ newUrl = NoUrl
  /\ conn = 0 /\ pending = NoResponse /\ fetched = <<>>
  /\ peerOut = <<>> /\ ev = NoEvent /\ acc = NoAccepted
  /\ encS \in EncInputs /\ encOut = EmptyString /\ encI = 0
  /\ cardsLeft = 0 /\ idleLeft = 0

\* lines 195-205, one turn of the for loop
urlEncode_char ==
  /\ pc = "enc_loop"
  /\ encI < Len(encS)
  /\ encOut' = encOut \o EncodeChar(encS[encI + 1])
  /\ encI' = encI + 1
  /\ UNCHANGED <<now, pc, stack, reader, wifi, pins, debounce, lastWifiCheck, cardUID,
                 connectStart, beeps, locals, conn, peerOut, ev, acc, budget, encS>>

\* line 206, after the loop
urlEncode_return ==
  /\ pc = "enc_loop"
  /\ ~(encI < Len(encS))
  /\ pc' = "enc_done"
  /\ UNCHANGED <<now, stack, reader, wifi, pins, debounce, lastWifiCheck, cardUID,
                 connectStart, beeps, locals, conn, peerOut, ev, acc, budget, enc>>

EncNext == urlEncode_char \/ urlEncode_return
EncSpec == EncInit /\ [][EncNext]_vars

TypeOK ==
  /\ now \in Nat /\ conn \in Nat /\ beeps \in 0..FAILURE_BEEPS
  /\ wifi \in BOOLEAN /\ reader \in BOOLEAN
  /\ green \in BOOLEAN /\ red \in BOOLEAN /\ buzzer \in BOOLEAN
  /\ lastCardRead <= now /\ lastWifiCheck <= now
  /\ cardsLeft \in Nat /\ idleLeft \in 0..MaxIdle

(* ======================================================================= *)
(* Properties                                                              *)
(* ======================================================================= *)
\* the card of the current turn was detected inside the cooldown window of
\* the acceptance of the same identifier
InWindow == ev.kind = "card" /\ ev.same /\ ev.since < CARD_DEBOUNCE
\* positions of the thread after the decision of line 150
Decided == ev.kind = "card" /\ pc # "debounce"
\* the card event of this turn has run to its end (line 95 executed)
EventOver == ev.kind = "card" /\ ev.stamps = 1
FullCycle == /\ ev.acks = 1 /\ ev.reqs = 1 /\ ev.succ + ev.fail = 1
             /\ Len(peerOut) = 1 /\ ev.commits = 1 /\ ev.halts = 1
LastLine == peerOut[Len(peerOut)]

\* C1: a card read is suppressed if and only if its identifier is the one
\* accepted last and less than CARD_DEBOUNCE has elapsed since that
\* acceptance; suppressed reads in between do not restart the window.
C1_SuppressedIffInWindow ==
  Decided => (ev.supp <=> InWindow)

\* C2: a card presented again inside the cooldown window of its acceptance is
\* fully suppressed: no read-ack, no request, no GET, no connection, no peer
\* line, no feedback pattern, only the halt; together with the accepted
\* presentation there is exactly one request, one pattern and one peer line.
C2_RepeatInWindowFullySuppressed ==
  InWindow =>
    /\ ev.acks = 0 /\ ev.reqs = 0 /\ ev.opens = 0 /\ fetched = <<>> /\ conn = 0
    /\ ev.succ = 0 /\ ev.fail = 0 /\ peerOut = <<>> /\ ev.commits = 0
    /\ ~green /\ ~buzzer
    /\ Decided => (ev.supp /\ ev.halts = 1)
    /\ acc.reqs + ev.reqs = 1
    /\ acc.pats + ev.succ + ev.fail = 1
    /\ acc.lines + Len(peerOut) = 1

C2_Witness ==
  InWindow /\ EventOver /\ ev.supp /\ ev.halts = 1 /\ pc = "delay"

\* C3: a card accepted, not presented for at least CARD_DEBOUNCE, then
\* presented again, is processed in full both times: a read-ack, a request,
\* a pattern, a peer line and a commit each.
Waited == ev.kind = "card" /\ ev.same /\ ev.quiet /\ ev.since >= CARD_DEBOUNCE
C3_RepeatAfterCooldownFullCycle ==
  Waited =>
    /\ ~ev.supp
    /\ ev.commits = 0 => (acc.reqs = 1 /\ acc.pats = 1 /\ acc.lines = 1)
    /\ EventOver => FullCycle

C3_Witness ==
  Waited /\ ev.since = CARD_DEBOUNCE /\ EventOver /\ FullCycle /\ pc = "delay"

\* C4: after a card that was not suppressed has been processed, lastUID is
\* its identifier and lastCardRead the time its processing completed,
\* whatever the result; a card whose request failed and which is presented
\* again inside the cooldown is suppressed without a second request.
C4_CommitWhateverResult ==
  /\ (EventOver /\ ~ev.supp) =>
        /\ lastUID = cardUID /\ acc.uid = cardUID
        /\ lastCardRead = acc.time
        /\ pc = "check" => lastCardRead = now
        /\ peerOut \in { <<"Access Granted!">>, <<"Session Ended">>,
                         <<"Access Denied">>, <<"Request Failed">> }
  /\ (InWindow /\ acc.failed /\ Decided) => (ev.supp /\ ev.reqs = 0)

C4_Witness ==
  InWindow /\ acc.failed /\ EventOver /\ ev.supp /\ ev.reqs = 0

C4_WitnessFailedCommit ==
  EventOver /\ ~ev.supp /\ peerOut = <<"Request Failed">> /\ lastUID = cardUID

\* C5: lastUID and lastCardRead change only in the commit of a card that was
\* processed in full; a suppressed read and the health check leave both.
C5_DebounceStateOnlyAtCommit ==
  [][ (lastUID' # lastUID \/ lastCardRead' # lastCardRead)
        => (ev.kind = "card" /\ ~ev.supp /\ pc \in {"commit", "stamp"}) ]_vars

\* what the spec calls the RequestOutcome of the request of this turn
Outcome ==
  IF ev.link = "down" \/ code < 0 THEN [tag |-> "TransportFailure", body |-> <<>>]
  ELSE IF code = 200 THEN [tag |-> "Success", body |-> pending.body]
  ELSE [tag |-> "HttpFailure", body |-> pending.body]
\* the AccessResult the spec assigns to a RequestOutcome
AccessResult(o) ==
  IF o.tag = "Success"
    THEN IF \E i \in DOMAIN o.body : o.body[i] = "session_started" THEN "Granted"
         ELSE IF \E i \in DOMAIN o.body : o.body[i] = "session_ended" THEN "Ended"
         ELSE "Denied"
    ELSE "RequestFailed"
LineOf(result) ==
  CASE result = "Granted" -> "Access Granted!"
    [] result = "Ended" -> "Session Ended"
    [] result = "Denied" -> "Access Denied"
    [] result = "RequestFailed" -> "Request Failed"
\* the thread has written the peer line and is about to start the pattern
Classified == ev.kind = "card" /\ pc \in {"ss_begin", "sf_begin"}

\* C6: the result reported for a request is Granted for a 200 body with
\* session_started (also next to session_ended), else Ended for a 200 body
\* with session_ended, else Denied for any other 200 body, and RequestFailed
\* for a transport failure or any other status whatever the body holds.
C6_Classification ==
  Classified => LastLine = LineOf(AccessResult(Outcome))

C6_Witness ==
  /\ Classified /\ code = 200 /\ LastLine = "Access Granted!"
  /\ pending.body = <<"session_ended", "session_started">>

C6_WitnessMarkerInFailure ==
  /\ Classified /\ code = 404 /\ LastLine = "Request Failed"
  /\ pending.body = <<"session_started">>

\* C7: a card that is not suppressed gets exactly one peer line and exactly
\* one feedback pattern: the success pattern with "Access Granted!" or
\* "Session Ended", the failure pattern with "Access Denied" or
\* "Request Failed".
C7_OneLineOnePattern ==
  (ev.kind = "card" /\ ~ev.supp) =>
    /\ Len(peerOut) <= 1 /\ ev.succ + ev.fail <= 1
    /\ ev.succ + ev.fail = 1 => Len(peerOut) = 1
    /\ ev.succ = 1 => peerOut[1] \in {"Access Granted!", "Session Ended"}
    /\ ev.fail = 1 => peerOut[1] \in {"Access Denied", "Request Failed"}
    /\ pc = "ss_begin" => peerOut[1] \in {"Access Granted!", "Session Ended"}
    /\ pc = "sf_begin" => peerOut[1] \in {"Access Denied", "Request Failed"}
    /\ ev.commits = 1 => (Len(peerOut) = 1 /\ ev.succ + ev.fail = 1)

C7_Witness ==
  EventOver /\ ~ev.supp /\ peerOut = <<"Access Denied">> /\ ev.fail = 1 /\ ev.succ = 0

\* C8: when the link is down at the request, no connection is opened and no
\* GET sent, the call fails at once, the peer gets "Request Failed", the
\* failure pattern runs and the card is still committed.
C8_LinkDownShortCircuit ==
  (ev.kind = "card" /\ ev.link = "down") =>
    /\ ev.opens = 0 /\ fetched = <<>> /\ conn = 0 /\ ev.succ = 0
    /\ pc = "classify" => (code < 0 /\ ~ok /\ pending = NoResponse)
    /\ peerOut # <<>> => peerOut = <<"Request Failed">>
    /\ pc \in {"commit", "halt", "stamp", "check", "delay"} => ev.fail = 1
    /\ EventOver => (lastUID = cardUID /\ lastCardRead = acc.time /\ ev.commits = 1)

C8_Witness ==
  /\ EventOver /\ ev.link = "down" /\ peerOut = <<"Request Failed">>
  /\ ev.fail = 1 /\ lastUID = cardUID /\ ev.opens = 0

\* C9: one request sends at most two GETs; the second only after a 301 or
\* 302 answer to the first, to the Location of that answer, and its result
\* is final: for the chain SCRIPT_BASE -> LOC_B -> LOC_C the third URL is
\* never fetched and the redirect answer of LOC_B is a failed request; the
\* request succeeds only with a final status 200.
C9_OneRedirectHop ==
  ev.kind = "card" =>
    /\ Len(fetched) <= 2
    /\ \A i \in DOMAIN fetched : fetched[i].base # "LOC_C"
    /\ Len(fetched) >= 1 => fetched[1] = RequestUrl(cardUID)
    /\ Len(fetched) = 2 => fetched[2] = LocationUrl("LOC_B")
    /\ pc \in {"http_rebegin", "http_reget"} =>
          (code \in {301, 302} /\ Len(fetched) = 1)
    /\ pc = "http_got" => Len(fetched) = 1
    /\ pc = "http_final" => Len(fetched) = 2
    /\ (pc = "classify" /\ ev.link = "up") =>
          /\ code = pending.code
          /\ ok <=> code = 200
          /\ (Len(fetched) = 1 => code \notin {301, 302})
    /\ (Classified /\ ev.link = "up" /\ code \in {301, 302}) =>
          (Len(fetched) = 2 /\ peerOut = <<"Request Failed">>)

C9_Witness ==
  /\ Classified /\ code = 302 /\ Len(fetched) = 2
  /\ pending.loc = LocationUrl("LOC_C") /\ peerOut = <<"Request Failed">>

\* C10: no failure is fatal: a card event, whatever the link, status,
\* redirect, timeout or body, always leads to the halt of the card session
\* and then back to the top of loop(), where the reader is polled again.
C10_NoFailureIsFatal ==
  /\ (ev.kind = "card" /\ ev.halts = 0) ~> (ev.kind = "card" /\ ev.halts = 1)
  /\ (ev.kind # "none") ~> (pc = "loop" /\ ev.kind = "none")

C10_Witness ==
  /\ EventOver /\ ev.halts = 1 /\ peerOut = <<"Request Failed">>
  /\ pc = "delay" /\ cardsLeft > 0

\* positions to which wifiConnect returns: line 87 and line 107
AfterConnect == {"setup_ready", "check_done"}

\* C11 as stated, with a timeout of 20 in the unit of the cooldown of 2000:
\* once 20 have elapsed since the connect attempt began, wifiConnect waits
\* no longer.
C11_ReturnsAfter20 ==
  [][ (pc = "wifi_wait" /\ Elapsed(connectStart) >= 20) => now' = now ]_vars

\* C11: wifiConnect always terminates: one connect attempt per call, it
\* waits only while the link is down and less than WIFI_CONNECT_TIMEOUT
\* (20000) has elapsed, returns to its caller when the link is up or the
\* timeout has elapsed, never begins a second attempt by itself, and
\* whenever it has returned with the link down the red indicator is on.
C11_ConnectTerminates ==
  /\ [](pc = "wifi_wait" => Elapsed(connectStart) <= WIFI_CONNECT_TIMEOUT)
  /\ []((pc \in AfterConnect /\ ~wifi) => red)
  /\ [][ /\ (pc = "wifi_wait" /\ now' # now) =>
                (~wifi /\ Elapsed(connectStart) < WIFI_CONNECT_TIMEOUT)
         /\ (pc = "wifi_wait" /\ pc' # "wifi_wait") =>
                /\ pc' = Head(stack) /\ pc' \in AfterConnect
                /\ wifi \/ Elapsed(connectStart) >= WIFI_CONNECT_TIMEOUT
                /\ wifi \/ red'
                /\ wifi' = wifi /\ now' = now
         /\ connectStart' # connectStart =>
                (pc = "wifi_begin" /\ pc' = "wifi_wait" /\ connectStart' = now)
         /\ pc' = "wifi_begin" => pc \in {"setup", "check"} ]_vars
  /\ (pc = "wifi_begin") ~> (pc \in AfterConnect)

C11_Witness ==
  /\ pc \in AfterConnect /\ ~wifi /\ red /\ reader
  /\ Elapsed(connectStart) = WIFI_CONNECT_TIMEOUT

\* positions of the thread inside httpGET
InHttpGET == {"http_enter", "http_get", "http_got", "http_rebegin", "http_reget",
              "http_final"}

\* C12: in httpGET every http.begin() is matched by exactly one http.end()
\* on every path (200, other status, error code, redirect followed, second
\* GET failing): never two connections open, never an end() without an open
\* connection, and none open once httpGET has returned.
C12_ConnectionReleased ==
  /\ conn \in {0, 1}
  /\ conn = ev.opens - ev.closes
  /\ ev.closes <= ev.opens /\ ev.opens <= 2
  /\ pc \notin InHttpGET => conn = 0
  /\ pc \in {"http_get", "http_got", "http_reget", "http_final"} => conn = 1
  /\ pc = "http_rebegin" => conn = 0
  /\ (pc = "classify" /\ ev.link = "up") =>
        (ev.opens = Len(fetched) /\ ev.closes = ev.opens /\ ev.opens >= 1)
  /\ (pc = "classify" /\ ev.link = "down") => (ev.opens = 0 /\ ev.closes = 0)

C12_Witness ==
  /\ pc = "classify" /\ Len(fetched) = 2 /\ code < 0
  /\ conn = 0 /\ ev.opens = 2 /\ ev.closes = 2

C12_WitnessError ==
  /\ pc = "classify" /\ Len(fetched) = 1 /\ code < 0
  /\ conn = 0 /\ ev.opens = 1 /\ ev.closes = 1

\* C13: the health check runs only when more than WIFI_CHECK_INTERVAL has
\* elapsed since the previous one; when it ends, after any reconnect, the
\* reference time becomes the current time, so no check is due in the next
\* turn however late this one was; wifiConnect is called from the check only
\* when the check is due and the link is down.
C13_CheckCadence ==
  [][ /\ lastWifiCheck' # lastWifiCheck => pc = "check_done"
      /\ pc' = "check_done" =>
            (CheckDue(now) /\ (pc = "check" => wifi) /\ pc \in {"check", "wifi_wait"})
      /\ (pc = "check" /\ pc' = "wifi_begin") => (CheckDue(now) /\ ~wifi)
      /\ (pc = "check" /\ pc' = "delay") => ~CheckDue(now)
      /\ pc = "check_done" =>
            /\ lastWifiCheck' = now /\ now' = now /\ pc' = "delay"
            /\ ~CheckDue(now + LOOP_DELAY)'
      /\ (pc = "loop" /\ pc' = "check") => CheckDue(now)
      /\ (pc = "delay" /\ lastWifiCheck = now) => ~CheckDue(now)' ]_vars

\* a check that a card turn has delayed by more than a loop turn is ending
C13_Witness ==
  /\ pc = "check_done" /\ EventOver
  /\ now - lastWifiCheck > WIFI_CHECK_INTERVAL + LOOP_DELAY

\* a check that spent the whole timeout reconnecting has ended
C13_WitnessReconnect ==
  /\ pc = "delay" /\ lastWifiCheck = now /\ ~wifi /\ red
  /\ Elapsed(connectStart) = WIFI_CONNECT_TIMEOUT /\ connectStart > SETUP_DELAY

\* positions of the thread between line 94 (or 97) and the return to loop()
InCardPath == InHttpGET \cup
  {"debounce", "ack_on", "ack_off", "request", "classify", "commit", "halt",
   "ss_begin", "ss_beep", "ss_hold", "sf_begin", "sf_loop", "sf_beep", "sf_gap"}
\* a card has been detected and its session not yet halted
Processing == ev.kind = "card" /\ ev.halts = 0

\* C14: from the detection of a card to its halt the thread stays inside
\* readRFIDCard: no second card is detected, lastWifiCheck is not touched,
\* wifiConnect is not entered; the health check and wifiConnect run only from
\* setup() and from the end of a loop turn, after the card's halt.
C14_NoInterleaving ==
  [][ /\ Processing' => pc' \in InCardPath
      /\ Processing =>
            /\ pc' \in InCardPath \cup {"stamp"}
            /\ cardsLeft' = cardsLeft /\ cardUID' = cardUID
            /\ lastWifiCheck' = lastWifiCheck /\ connectStart' = connectStart
            /\ ev'.kind = "card"
      /\ pc \in InCardPath => pc' \in InCardPath \cup {"stamp", "check"}
      /\ pc' \in {"wifi_begin", "wifi_wait", "check_done"} =>
            /\ ev'.kind = "card" => ev'.stamps = 1
            /\ pc \in {"setup", "check", "wifi_begin", "wifi_wait"}
      /\ pc' = "check" => pc \in {"loop", "stamp", "sf_loop"}
      /\ cardsLeft' # cardsLeft => (pc = "loop" /\ ev.kind = "none") ]_vars

\* the health check is overdue while a card is still being processed
C14_Witness ==
  Processing /\ pc = "commit" /\ CheckDue(now) /\ cardsLeft > 0

\* the steps of a card that is not suppressed, up to the commit: the read-ack
\* pulse is over before the request, the request made before the peer line,
\* the peer line written before the pattern, the pattern over before the
\* commit, and lastUID is the identifier accepted before until the commit
OrderUpToCommit ==
  /\ ev.reqs = 1 => ev.acks = 1
  /\ pc \in InHttpGET \cup {"request"} => (ev.acks = 1 /\ ~buzzer /\ peerOut = <<>>)
  /\ Len(peerOut) = 1 => ev.reqs = 1
  /\ ev.succ + ev.fail = 1 => Len(peerOut) = 1
  /\ pc \in {"commit", "halt"} => (ev.succ + ev.fail = 1 /\ ~green /\ ~buzzer)
  /\ ev.commits = 1 => ev.succ + ev.fail = 1
  /\ ev.commits = 0 => (lastUID = acc.uid /\ ev.halts = 0 /\ ev.stamps = 0)

\* C15: for a card that is not suppressed the order is read-ack, request,
\* classification with peer line and pattern, commit of lastUID and
\* lastCardRead, halt: when the card session has been halted both lastUID
\* and lastCardRead hold the values of this card.
C15_CommitThenHalt ==
  (ev.kind = "card" /\ ~ev.supp /\ pc # "debounce") =>
    /\ OrderUpToCommit
    /\ ev.halts = 1 =>
          (ev.commits = 1 /\ lastUID = cardUID /\ lastCardRead = acc.time)

\* C15 without the timestamp at the halt
C15_OrderBeforeStamp ==
  (ev.kind = "card" /\ ~ev.supp /\ pc # "debounce") =>
    /\ OrderUpToCommit
    /\ ev.halts = 1 => (ev.commits = 1 /\ lastUID = cardUID)
    /\ ev.stamps = 1 => (ev.halts = 1 /\ lastCardRead = acc.time)

\* C16: a card that is processed in full was detected at least CARD_DEBOUNCE
\* after the last commit of the same identifier, also when other identifiers
\* were accepted in between.
C16_AcceptedReadsApart ==
  /\ (Decided /\ ~ev.supp /\ ev.own >= 0) => ev.own >= CARD_DEBOUNCE
  /\ \A u \in CardUIDs : acc.at[u] <= now

\* the identifier is accepted again after another one was accepted in between
C16_Witness ==
  EventOver /\ ~ev.supp /\ ev.own >= 0 /\ ~ev.same /\ ev.commits = 1

\* the identifier is accepted again exactly CARD_DEBOUNCE after its commit
C16_WitnessBoundary ==
  EventOver /\ ~ev.supp /\ ev.own = CARD_DEBOUNCE /\ ev.same /\ ev.commits = 1

\* C18: a card whose serial cannot be read gets the failure pattern and
\* nothing else: no read-ack, no request, no connection, no peer line, no
\* halt, no commit, no stamp; lastUID and lastCardRead keep their values.
C18_UnreadableCardOnlyFails ==
  [][ ev'.kind = "unreadable" =>
        /\ ev'.acks = 0 /\ ev'.reqs = 0 /\ ev'.opens = 0 /\ ev'.succ = 0
        /\ ev'.halts = 0 /\ ev'.commits = 0 /\ ev'.stamps = 0 /\ ev'.fail <= 1
        /\ peerOut' = <<>> /\ conn' = 0 /\ fetched' = <<>> /\ ~green'
        /\ pc' \notin {"sf_begin", "stamp"} => ev'.fail = 1
        /\ pc' \in {"sf_begin", "sf_loop", "sf_beep", "sf_gap", "check", "check_done",
                    "delay", "wifi_begin", "wifi_wait"}
        /\ UNCHANGED <<debounce, acc>> ]_vars

\* an unreadable card after an accepted one, its pattern played
C18_Witness ==
  /\ ev.kind = "unreadable" /\ ev.fail = 1 /\ pc = "delay" /\ acc.some
  /\ lastUID = acc.uid /\ lastCardRead = acc.time

\* C19: the first card after startup is never suppressed, whatever its
\* identifier and also when it is presented less than CARD_DEBOUNCE after
\* millis() = 0: lastUID is "" until the first commit and no card has the
\* identifier "".
C19_FirstCardNotSuppressed ==
  /\ \A u \in CardUIDs : u # EmptyString
  /\ (ev.kind = "card" /\ ~acc.some) =>
        /\ ~ev.supp
        /\ cardUID # EmptyString
        /\ lastUID = EmptyString
        /\ pc # "debounce" => pc \in InCardPath

\* the first card is processed though less than CARD_DEBOUNCE has elapsed
\* since lastCardRead = 0
C19_Witness ==
  /\ ev.kind = "card" /\ ~acc.some /\ pc = "ack_on" /\ ~ev.supp
  /\ lastCardRead = 0 /\ now < CARD_DEBOUNCE

\* positions of the thread outside card processing and feedback patterns
IdlePositions == {"setup_ready", "loop", "stamp", "check", "check_done", "delay",
                  "wifi_begin", "wifi_wait"}

\* C20: whenever no card is being processed and no pattern runs, the buzzer
\* and the green indicator are off; the green indicator is on only inside
\* signalSuccess.
C20_IdleIndicatorsOff ==
  /\ pc \in IdlePositions => (~green /\ ~buzzer)
  /\ green => pc \in {"ss_beep", "ss_hold"}
  /\ buzzer => pc \in {"ack_off", "ss_beep", "sf_beep"}

\* idle after a success pattern, the red indicator still on from a failed connect
C20_Witness ==
  /\ pc = "loop" /\ acc.some /\ ~acc.failed /\ acc.pats = 1
  /\ ~green /\ ~buzzer /\ red /\ cardsLeft = 0

\* the encoding as the rule states it: A-Z a-z 0-9 - _ . ~ unchanged, any
\* other byte as % and its two hex digits out of 0123456789ABCDEF
Unreserved == (65..90) \cup (97..122) \cup (48..57) \cup {45, 95, 46, 126}
UpperHexDigits == <<48, 49, 50, 51, 52, 53, 54, 55, 56, 57, 65, 66, 67, 68, 69, 70>>
PercentEncoded(c) ==
  IF c \in Unreserved THEN <<c>>
  ELSE <<37, UpperHexDigits[(c \div 16) + 1], UpperHexDigits[(c % 16) + 1]>>
RECURSIVE PercentEncoding(_)
PercentEncoding(s) ==
  IF s = <<>> THEN <<>> ELSE PercentEncoded(Head(s)) \o PercentEncoding(Tail(s))

\* C17: urlEncode maps the characters of its input in order, A-Z a-z 0-9 and
\* - _ . ~ to themselves and any other byte to % and its two uppercase hex
\* digits (space to %20); so the uid and token parts of the request URL of an
\* uppercase-hex identifier and the token RSP505 are these strings unchanged.
C17_PercentEncoding ==
  /\ encOut = PercentEncoding(SubSeq(encS, 1, encI))
  /\ pc = "enc_done" =>
        /\ encI = Len(encS)
        /\ encOut = PercentEncoding(encS)
        /\ urlEncode(encS) = encOut
        /\ (\A i \in DOMAIN encS : encS[i] \in Unreserved) => encOut = encS
        /\ encS = <<32>> => encOut = <<37, 50, 48>>
        /\ encS \in CardUIDs =>
              /\ RequestUrl(encS).uid = encS
              /\ RequestUrl(encS).token = TOKEN
              /\ RequestUrl(encS).mode = "check_and_toggle"

\* a letter and a space have been encoded
C17_Witness ==
  pc = "enc_done" /\ encS = <<65, 32>> /\ encOut = <<65, 37, 50, 48>>

\* DEADBEEF has been encoded
C17_WitnessIdentifier ==
  /\ pc = "enc_done" /\ encS = <<68, 69, 65, 68, 66, 69, 69, 70>> /\ encOut = encS
  /\ RequestUrl(encS).token = <<82, 83, 80, 53, 48, 53>>

====
